---- MODULE Spec2Model ----
(***************************************************************************)
(* Model of src/script.js: the weather widget's event handlers, the two    *)
(* sequential network requests of a search, the three visibility           *)
(* containers, the unit preference and its persisted copy.                  *)
(*                                                                         *)
(* Text is a sequence of one-character strings (UTF-16 code units), so     *)
(* that trim(), .length, encodeURIComponent and includes() are computed    *)
(* and not assumed.  A suspended async function is a record of `searches`  *)
(* whose pc names the await it is parked on.                               *)
(***************************************************************************)
EXTENDS Integers, Sequences, FiniteSets

\* ------------------------------------------------------------------ bounds
\* performWeatherSearch calls in one behaviour, where searches overlap.
MaxSearches == 2
\* performWeatherSearch calls in one behaviour, where the data is varied.
MaxSolo == 1
\* getCurrentPosition calls whose callback has not run yet.
MaxGeo == 1
\* The longest forecast list drawn entry by entry.
MaxList == 4

\* --------------------------------------------------------------- constants
UNITS == [CELSIUS |-> "metric", FAHRENHEIT |-> "imperial"]

STATES == [LOADING |-> "loading", DISPLAY |-> "display", ERROR |-> "error"]

\* The longest accepted city name (isValidCityInput).
MaxCityLen == 100

\* GeolocationPositionError codes, read off the error object by the handler.
PERMISSION_DENIED == 1
POSITION_UNAVAILABLE == 2
TIMEOUT == 3

\* ------------------------------------------------------------------- text
Rep(c, n) == [i \in 1..n |-> c]

\* Characters String.prototype.trim strips (the ones the inputs below use).
WhiteSpace == {" ", "\t", "\n"}

\* A UTF-16 high surrogate with no low surrogate after it.
LoneSurrogate == "\\uD800"

RECURSIVE TrimStart(_)
TrimStart(s) ==
    IF s # <<>> /\ Head(s) \in WhiteSpace THEN TrimStart(Tail(s)) ELSE s

RECURSIVE TrimEnd(_)
TrimEnd(s) ==
    IF s # <<>> /\ s[Len(s)] \in WhiteSpace
    THEN TrimEnd(SubSeq(s, 1, Len(s) - 1))
    ELSE s

\* String.prototype.trim
Trim(s) == TrimEnd(TrimStart(s))

\* encodeURIComponent, character by character: unreserved characters are
\* kept, the others are percent-encoded; a lone surrogate raises URIError.
EncodeChar(c) ==
    CASE c = " "  -> <<"%", "2", "0">>
      [] c = "\t" -> <<"%", "0", "9">>
      [] c = "\n" -> <<"%", "0", "A">>
      [] OTHER    -> <<c>>

RECURSIVE encodeURIComponent(_)
encodeURIComponent(s) ==
    IF s = <<>> THEN <<>> ELSE EncodeChar(Head(s)) \o encodeURIComponent(Tail(s))

HasLoneSurrogate(s) == \E i \in 1..Len(s) : s[i] = LoneSurrogate

\* String.prototype.includes
Includes(s, sub) ==
    \E i \in 0..(Len(s) - Len(sub)) : SubSeq(s, i + 1, i + Len(sub)) = sub

\* Math.round on a number given in tenths (15.4 is 154): to the nearest
\* integer, halves towards +infinity.
MathRound(tenths) == (tenths + 5) \div 10

\* ------------------------------------------------------------ message text
MsgEmptyCity == "Please enter a city name"
MsgInvalidCity == "Please enter a valid city name"
MsgCityNotFound == "City not found"
MsgLocationFetch == "Unable to fetch weather for your location"
MsgForecastFetch == "Unable to fetch forecast data"
MsgNoGeolocation == "Geolocation is not supported by this browser"
MsgGeoDefault == "Location access denied"
MsgGeoDenied == "Location access denied. Please enable location services."
MsgGeoUnavailable == "Location information is unavailable."
MsgGeoTimeout == "Location request timed out."
\* Messages of errors the platform raises (engine wording).
MsgNetwork == "Failed to fetch"
MsgURIError == "URI malformed"
MsgNoCoord == "Cannot read properties of undefined (reading 'lat')"
MsgNoMain == "Cannot read properties of undefined (reading 'temp')"
MsgNoList == "Cannot read properties of undefined (reading 'filter')"
MsgNoDtTxt == "Cannot read properties of undefined (reading 'includes')"
MsgNoWeather == "Cannot read properties of undefined (reading '0')"

\* ------------------------------------------------------------------- data
Paris == <<"P", "a", "r", "i", "s">>
London == <<"L", "o", "n", "d", "o", "n">>
\* The city name the markup shows before any search (line 261).
Placeholder == <<"C", "i", "t", "y", " ", "N", "a", "m", "e">>

\* Values the user may have typed into #city-input.
TextEmpty == <<>>
TextBlank == <<" ", "\t">>
TextParis == <<" ">> \o Paris \o <<"\n">>
TextTwoWords == <<"L", " ", "A">>
TextLongest == <<" ">> \o Rep("x", MaxCityLen) \o <<" ">>
TextTooLong == Rep("x", MaxCityLen + 1)
TextSurrogate == <<LoneSurrogate>>

\* A rejected and an accepted text.
FewTexts == {TextBlank, TextParis}

InputTexts ==
    {TextEmpty, TextBlank, TextParis, TextTwoWords, TextLongest, TextTooLong,
     TextSurrogate}

\* Whether object `obj` carries property `f` (reading a property of a
\* missing one raises TypeError).
Has(obj, f) == f \in DOMAIN obj

\* Parsed bodies of the current-weather endpoint (temperatures and wind
\* speeds in tenths).
WeatherParis ==
    [name |-> Paris, coord |-> [lat |-> 48, lon |-> 2],
     main |-> [temp |-> 154, humidity |-> 60],
     weather |-> [description |-> "clear sky", icon |-> "01d"],
     wind |-> [speed |-> 36]]

WeatherLondon ==
    [name |-> London, coord |-> [lat |-> 51, lon |-> 0],
     main |-> [temp |-> -15, humidity |-> 81],
     weather |-> [description |-> "light rain", icon |-> "10d"],
     wind |-> [speed |-> 75]]

\* A position with no named place.
WeatherNameless ==
    [name |-> <<>>, coord |-> [lat |-> 10, lon |-> 10],
     main |-> [temp |-> 285, humidity |-> 70],
     weather |-> [description |-> "few clouds", icon |-> "02d"],
     wind |-> [speed |-> 51]]

\* Malformed: no coord.
WeatherNoCoord ==
    [name |-> Paris,
     main |-> [temp |-> 154, humidity |-> 60],
     weather |-> [description |-> "clear sky", icon |-> "01d"],
     wind |-> [speed |-> 36]]

\* Malformed: no main.
WeatherNoMain ==
    [name |-> London, coord |-> [lat |-> 51, lon |-> 0],
     weather |-> [description |-> "light rain", icon |-> "10d"],
     wind |-> [speed |-> 75]]

\* A body with a city name and one without.
NamePayloads == {WeatherParis, WeatherNameless}

\* The bodies of two cities.
CityPayloads == {WeatherParis, WeatherLondon}

WeatherPayloads ==
    {WeatherParis, WeatherLondon, WeatherNameless, WeatherNoCoord, WeatherNoMain}

\* Positions the platform may report.
Positions == { [latitude |-> 10, longitude |-> 10] }

\* Codes a GeolocationPositionError may carry (0 stands for any other code).
GeoErrorCodes == {0, PERMISSION_DENIED, POSITION_UNAVAILABLE, TIMEOUT}

TwoDigits(n) ==
    LET D == <<"0", "1", "2", "3", "4", "5", "6", "7", "8", "9">>
    IN  <<D[(n \div 10) + 1], D[(n % 10) + 1]>>

\* dt_txt of the 3-hourly forecast entry of January `day`, 2024 at `hour`.
DtTxt(day, hour) ==
    <<"2", "0", "2", "4", "-", "0", "1", "-">> \o TwoDigits(day) \o <<" ">>
        \o TwoDigits(hour) \o <<":", "0", "0", ":", "0", "0">>

\* A forecast list entry (dt in seconds since the epoch, UTC).
Entry(day, hour, temp) ==
    [dt |-> 1704067200 + (day - 1) * 86400 + hour * 3600,
     dt_txt |-> DtTxt(day, hour),
     main |-> [temp |-> temp],
     weather |-> [description |-> "clear sky", icon |-> "01d"]]

\* Parsed bodies of the forecast endpoint.
ForecastTwoDays ==
    [list |-> << Entry(1, 9, 121), Entry(1, 12, 154), Entry(1, 15, 160),
                 Entry(2, 12, 175), Entry(2, 21, 98) >>]

\* The order of the list is the provider's.
ForecastUnordered ==
    [list |-> << Entry(3, 12, -15), Entry(3, 15, 0), Entry(2, 12, 25) >>]

\* Malformed: no list.
ForecastNoList == [cod |-> "200"]

\* Malformed: a noon entry with no weather array, after a good one.
ForecastNoWeather ==
    [list |-> << Entry(1, 12, 154),
                 [dt |-> 1704196800, dt_txt |-> DtTxt(2, 12),
                  main |-> [temp |-> 175]] >>]

\* Malformed: an entry with no dt_txt.
ForecastNoDtTxt ==
    [list |-> << Entry(1, 12, 154),
                 [dt |-> 1704121200, main |-> [temp |-> 160],
                  weather |-> [description |-> "clear sky", icon |-> "01d"]] >>]

\* A list that reaches over six days: six entries are at noon.
ForecastSixDays ==
    [list |-> << Entry(1, 12, 154), Entry(2, 12, 175), Entry(3, 12, 160),
                 Entry(4, 9, 121), Entry(4, 12, 148), Entry(5, 12, 131),
                 Entry(6, 12, 127) >>]

ForecastPayloads ==
    {ForecastTwoDays, ForecastUnordered, ForecastSixDays, ForecastNoList,
     ForecastNoWeather, ForecastNoDtTxt}

\* Entries a drawn list is made of: a morning one and the noon ones of two
\* days.
ForecastEntries == {Entry(1, 9, 121), Entry(1, 12, 154), Entry(2, 12, 175)}

\* Every list of up to MaxList such entries, in every order.
ListPayloads ==
    { [list |-> l] : l \in UNION { [1..n -> ForecastEntries] : n \in 0..MaxList } }

\* How a fetch() and the body read that follows it can end.
NetOutcomes == {"reject", "notOk", "json"}

\* ------------------------------------------------------------------ state
VARIABLES
    localStorage,   \* [tempUnit |-> <<>> (no item) or <<string>>]
    currentUnit,    \* the module-level unit
    elements,       \* the cached DOM elements: text, classes, forecast cards
    geolocation,    \* whether navigator.geolocation exists
    geoPending,     \* getCurrentPosition calls whose callback has not run
    searches,       \* the performWeatherSearch calls parked on an await
    started,        \* how many performWeatherSearch calls there have been
    finished,       \* history: the call that ended in the latest step, if any
    uiState,        \* history: the argument of the latest toggleState call
    calls,          \* history: the arguments of the toggleState calls of the
                    \* latest step, in order
    toggled,        \* history: unit, item and symbol before each toggle of
                    \* the current run of consecutive toggles (the last two)
    wroteBy         \* history: the ids of the searches whose
                    \* displayCurrentWeather and displayForecast ran last
                    \* (0: none has), and the coord each of them got

vars == <<localStorage, currentUnit, elements, geolocation, geoPending,
          searches, started, finished, uiState, calls, toggled, wroteBy>>

\* Values the 'tempUnit' item may hold when the page loads.
StoredItems == { <<>>, <<"metric">>, <<"imperial">>, <<"kelvin">> }

\* localStorage.getItem(key) || fallback
GetItemOr(storage, fallback) ==
    IF storage.tempUnit # <<>> /\ storage.tempUnit[1] # ""
    THEN storage.tempUnit[1]
    ELSE fallback

\* The symbol shown for a unit (lines 83, 99, 255, 276).
tempSymbol(unit) == IF unit = UNITS.CELSIUS THEN "°C" ELSE "°F"

windUnit(unit) == IF unit = UNITS.CELSIUS THEN "km/h" ELSE "mph"

\* Text the markup holds before any script wrote to the element.
Markup == [markup |-> TRUE]

\* The page as the markup gives it; `h` are the three containers' classes.
MarkupElements(h) ==
    [ loadingHidden |-> h[1], errorMsgHidden |-> h[2], weatherDisplayHidden |-> h[3],
      unitText |-> "", errorText |-> "",
      cityName |-> Placeholder, temp |-> Markup, description |-> "",
      humidity |-> Markup, wind |-> Markup, weatherIcon |-> Markup,
      forecastContainer |-> <<>> ]

\* ------------------------------------------------------------ UI functions
\* toggleState without line 121: the error container is never hidden.
toggleState_KeepsError(el, state) ==
    LET allHidden == [el EXCEPT !.loadingHidden = TRUE,
                                !.weatherDisplayHidden = TRUE]
    IN  CASE state = STATES.LOADING -> [allHidden EXCEPT !.loadingHidden = FALSE]
          [] state = STATES.DISPLAY -> [allHidden EXCEPT !.weatherDisplayHidden = FALSE]
          [] state = STATES.ERROR   -> [allHidden EXCEPT !.errorMsgHidden = FALSE]
          [] OTHER                  -> allHidden

toggleState(el, state) ==
    LET allHidden == [el EXCEPT !.loadingHidden = TRUE,
                                !.errorMsgHidden = TRUE,
                                !.weatherDisplayHidden = TRUE]
    IN  CASE state = STATES.LOADING -> [allHidden EXCEPT !.loadingHidden = FALSE]
          [] state = STATES.DISPLAY -> [allHidden EXCEPT !.weatherDisplayHidden = FALSE]
          [] state = STATES.ERROR   -> [allHidden EXCEPT !.errorMsgHidden = FALSE]
          [] OTHER                  -> allHidden

\* showError without line 143: the panel keeps its previous text.
showError_KeepsText(el, message) == toggleState(el, STATES.ERROR)

showError(el, message) ==
    toggleState([el EXCEPT !.errorText = message], STATES.ERROR)

\* Result of a function that may throw: the page it leaves and, when it
\* threw, the error's message.
Returned(el) == [el |-> el, threw |-> FALSE, message |-> ""]
Threw(el, message) == [el |-> el, threw |-> TRUE, message |-> message]

displayCurrentWeather(el, data, unit) ==
    LET named == [el EXCEPT !.cityName = data.name]
    IN  IF ~Has(data, "main")
        THEN Threw(named, MsgNoMain)
        ELSE Returned(
            [named EXCEPT
                !.temp = [value |-> MathRound(data.main.temp), unit |-> tempSymbol(unit)],
                !.description = data.weather.description,
                !.humidity = [value |-> data.main.humidity, unit |-> "%"],
                !.wind = [value |-> MathRound(data.wind.speed), unit |-> windUnit(unit)],
                !.weatherIcon = [src |-> <<data.weather.icon, "@2x.png">>,
                                 alt |-> data.weather.description]])

\* toLocaleDateString('en', {weekday: 'short'}) of an epoch time in seconds
\* (the zone taken as UTC; 1970-01-01 was a Thursday).
Weekday(dt) ==
    <<"Thu", "Fri", "Sat", "Sun", "Mon", "Tue", "Wed">>[((dt \div 86400) % 7) + 1]

forecastCard(day, unit) ==
    [date |-> Weekday(day.dt),
     icon |-> <<day.weather.icon, ".png">>,
     alt |-> day.weather.description,
     temp |-> [value |-> MathRound(day.main.temp), unit |-> tempSymbol(unit)]]

\* The forEach of displayForecast from `days[i]` on.
RECURSIVE appendCards(_, _, _, _)
appendCards(el, days, i, unit) ==
    IF i > Len(days) THEN Returned(el)
    ELSE IF ~Has(days[i], "weather") THEN Threw(el, MsgNoWeather)
    ELSE appendCards(
            [el EXCEPT !.forecastContainer = Append(@, forecastCard(days[i], unit))],
            days, i + 1, unit)

displayForecast(el, days, unit) ==
    appendCards([el EXCEPT !.forecastContainer = <<>>], days, 1, unit)

\* isValidCityInput with < for <= on line 153.
isValidCityInput_Below(city) ==
    city # <<>> /\ Len(Trim(city)) > 0 /\ Len(Trim(city)) < MaxCityLen

isValidCityInput(city) ==
    city # <<>> /\ Len(Trim(city)) > 0 /\ Len(Trim(city)) <= MaxCityLen

\* --------------------------------------------------------------- requests
\* The URL fetchWeather builds (CONFIG.BASE_URL and the appid are fixed).
weatherUrl(query, isCoords, unit) ==
    IF isCoords
    THEN [path |-> "/weather", lat |-> query.lat, lon |-> query.lon, units |-> unit]
    ELSE [path |-> "/weather", q |-> encodeURIComponent(query.city), units |-> unit]

\* fetchForecast with its two coordinates exchanged.
forecastUrl_Swapped(lat, lon, unit) ==
    [path |-> "/forecast", lat |-> lon, lon |-> lat, units |-> unit]

\* The URL fetchForecast builds.
forecastUrl(lat, lon, unit) ==
    [path |-> "/forecast", lat |-> lat, lon |-> lon, units |-> unit]

NoRequest == [none |-> TRUE]

\* Line 53 with the two messages exchanged.
weatherNotOkMessage_Exchanged(isCoords) ==
    IF isCoords THEN MsgCityNotFound ELSE MsgLocationFetch

\* The message of the Error fetchWeather throws on a response that is not ok.
weatherNotOkMessage(isCoords) ==
    IF isCoords THEN MsgLocationFetch ELSE MsgCityNotFound

\* A filter that keeps every eighth entry of the 3-hourly list instead.
filterNoon_EveryEighth(list) ==
    [k \in 1..((Len(list) + 7) \div 8) |-> list[8 * (k - 1) + 1]]

\* data.list.filter(item => item.dt_txt.includes("12:00:00")), `list` being
\* an array whose items all carry dt_txt.
Noon == <<"1", "2", ":", "0", "0", ":", "0", "0">>
IsNoon(item) == Includes(item.dt_txt, Noon)
filterNoon(list) == SelectSeq(list, IsNoon)

\* ---------------------------------------------------- performWeatherSearch
\* One call of performWeatherSearch.  pc: "awaitWeather" (parked on line 222),
\* "awaitForecast" (parked on line 225), "done".  The other fields record
\* what the call did: the requests it issued, how they settled, the coord of
\* the current-weather body, the forecast body and what fetchForecast
\* returned for it (forecastData, <<>> while nothing was returned), its
\* steps in order, how often its catch block ran and with which message.
NoCoord == [none |-> TRUE]
NoBody == [none |-> TRUE]

\* A catch block that also rolls the page back: the temperature and the
\* forecast cards are reset before the message is shown.
catchError_RollsBack(el, s, message) ==
    [el |-> showError([el EXCEPT !.temp = Markup, !.forecastContainer = <<>>],
                      message),
     calls |-> <<STATES.ERROR>>,
     search |-> [s EXCEPT !.pc = "done",
                          !.caught = @ + 1,
                          !.message = message,
                          !.trace = Append(@, "ERROR")]]

\* A catch block that swallows the error: showError is not called.
catchError_Swallows(el, s, message) ==
    [el |-> el,
     calls |-> <<>>,
     search |-> [s EXCEPT !.pc = "done",
                          !.caught = @ + 1,
                          !.message = message,
                          !.trace = Append(@, "ERROR")]]

\* The catch block: showError(error.message).
catchError(el, s, message) ==
    [el |-> showError(el, message),
     calls |-> <<STATES.ERROR>>,
     search |-> [s EXCEPT !.pc = "done",
                          !.caught = @ + 1,
                          !.message = message,
                          !.trace = Append(@, "ERROR")]]

\* From the call to the first await.
performWeatherSearch(el, query, isCoords, unit) ==
    LET loading == toggleState(el, STATES.LOADING)
        s == [id |-> 0, query |-> query, isCoords |-> isCoords, pc |-> "awaitWeather",
              weatherRequest |-> NoRequest, forecastRequest |-> NoRequest,
              settled |-> <<>>, coord |-> NoCoord, forecastBody |-> NoBody,
              forecastData |-> <<>>, caught |-> 0, message |-> "",
              trace |-> <<"LOADING">>]
    IN  IF ~isCoords /\ HasLoneSurrogate(query.city)
        THEN [catchError(loading, s, MsgURIError) EXCEPT !.calls = <<STATES.LOADING>> \o @]
        ELSE [el |-> loading,
              calls |-> <<STATES.LOADING>>,
              search |-> [s EXCEPT
                  !.weatherRequest = weatherUrl(query, isCoords, unit),
                  !.trace = Append(@, "requestWeather")]]

\* afterWeather with one retry: a fetch that was rejected for the first time
\* is issued again and the search parks on it.
afterWeather_Retries(el, s0, outcome, data, unit) ==
    LET s == [s0 EXCEPT !.settled = Append(@, outcome)]
    IN  CASE outcome = "reject" /\ s0.settled = <<>> ->
                [el |-> el,
                 calls |-> <<>>,
                 search |-> [s EXCEPT !.trace = Append(@, "requestWeather")]]
          [] outcome = "reject" -> catchError(el, s, MsgNetwork)
          [] outcome = "notOk"  -> catchError(el, s, weatherNotOkMessage(s.isCoords))
          [] OTHER ->
            LET shown == displayCurrentWeather(el, data, unit)
                rendered == [s EXCEPT !.trace = Append(@, "renderCurrent")]
            IN  IF shown.threw
                THEN catchError(shown.el,
                                [s EXCEPT !.trace = Append(@, "renderCurrentThrew")],
                                shown.message)
                ELSE IF ~Has(data, "coord")
                THEN catchError(shown.el, rendered, MsgNoCoord)
                ELSE [el |-> shown.el,
                      calls |-> <<>>,
                      search |-> [rendered EXCEPT
                          !.pc = "awaitForecast",
                          !.coord = data.coord,
                          !.forecastRequest =
                              forecastUrl(data.coord.lat, data.coord.lon, unit),
                          !.trace = Append(@, "requestForecast")]]

\* From the settling of fetchWeather's fetch to the next await or the end.
afterWeather(el, s0, outcome, data, unit) ==
    LET s == [s0 EXCEPT !.settled = Append(@, outcome)]
    IN  CASE outcome = "reject" -> catchError(el, s, MsgNetwork)
          [] outcome = "notOk"  -> catchError(el, s, weatherNotOkMessage(s.isCoords))
          [] OTHER ->
            LET shown == displayCurrentWeather(el, data, unit)
                rendered == [s EXCEPT !.trace = Append(@, "renderCurrent")]
            IN  IF shown.threw
                THEN catchError(shown.el,
                                [s EXCEPT !.trace = Append(@, "renderCurrentThrew")],
                                shown.message)
                ELSE IF ~Has(data, "coord")
                THEN catchError(shown.el, rendered, MsgNoCoord)
                ELSE [el |-> shown.el,
                      calls |-> <<>>,
                      search |-> [rendered EXCEPT
                          !.pc = "awaitForecast",
                          !.coord = data.coord,
                          !.forecastRequest =
                              forecastUrl(data.coord.lat, data.coord.lon, unit),
                          !.trace = Append(@, "requestForecast")]]

\* From the settling of fetchForecast's fetch to the end.
afterForecast(el, s0, outcome, data, unit) ==
    LET s == [s0 EXCEPT !.settled = Append(@, outcome)]
        got == [s EXCEPT !.forecastBody = data]
    IN  CASE outcome = "reject" -> catchError(el, s, MsgNetwork)
          [] outcome = "notOk"  -> catchError(el, s, MsgForecastFetch)
          [] OTHER ->
            IF ~Has(data, "list") THEN catchError(el, got, MsgNoList)
            ELSE IF \E i \in 1..Len(data.list) : ~Has(data.list[i], "dt_txt")
            THEN catchError(el, got, MsgNoDtTxt)
            ELSE
                LET forecastData == filterNoon(data.list)
                    back == [got EXCEPT !.forecastData = <<forecastData>>]
                    shown == displayForecast(el, forecastData, unit)
                IN  IF shown.threw
                    THEN catchError(shown.el,
                                    [back EXCEPT !.trace = Append(@, "renderForecastThrew")],
                                    shown.message)
                    ELSE [el |-> toggleState(shown.el, STATES.DISPLAY),
                          calls |-> <<STATES.DISPLAY>>,
                          search |-> [back EXCEPT
                              !.pc = "done",
                              !.trace = @ \o <<"renderForecast", "DISPLAY">>]]

\* --------------------------------------------------------------- handlers
\* What a handler leaves: the page, its toggleState calls, the search it
\* started, if any, and whether it asked for the position.
Shown(el, shown) == [el |-> el, calls |-> shown, started |-> <<>>, asked |-> FALSE]
Started(r) == [el |-> r.el, calls |-> r.calls, started |-> <<r.search>>, asked |-> FALSE]

\* handleSearch without the check of lines 164-167.
handleSearch_OneCheck(el, value, unit) ==
    LET city == Trim(value)
    IN  IF ~isValidCityInput(city)
        THEN Shown(showError(el, MsgInvalidCity), <<STATES.ERROR>>)
        ELSE Started(performWeatherSearch(el, [city |-> city], FALSE, unit))

handleSearch(el, value, unit) ==
    LET city == Trim(value)
    IN  IF city = <<>> \/ Len(city) = 0
        THEN Shown(showError(el, MsgEmptyCity), <<STATES.ERROR>>)
        ELSE IF ~isValidCityInput(city)
        THEN Shown(showError(el, MsgInvalidCity), <<STATES.ERROR>>)
        ELSE Started(performWeatherSearch(el, [city |-> city], FALSE, unit))

\* handleGeolocation with line 185 moved above the check of line 180.
handleGeolocation_LoadingFirst(el, supported) ==
    IF ~supported
    THEN Shown(showError(toggleState(el, STATES.LOADING), MsgNoGeolocation),
               <<STATES.LOADING, STATES.ERROR>>)
    ELSE [Shown(toggleState(el, STATES.LOADING), <<STATES.LOADING>>)
            EXCEPT !.asked = TRUE]

\* handleGeolocation up to the return of getCurrentPosition, `supported`
\* being whether navigator.geolocation exists.
handleGeolocation(el, supported) ==
    IF ~supported
    THEN Shown(showError(el, MsgNoGeolocation), <<STATES.ERROR>>)
    ELSE [Shown(toggleState(el, STATES.LOADING), <<STATES.LOADING>>)
            EXCEPT !.asked = TRUE]

\* The switch on error.code without its TIMEOUT case.
geoErrorMessage_NoTimeout(code) ==
    CASE code = PERMISSION_DENIED    -> MsgGeoDenied
      [] code = POSITION_UNAVAILABLE -> MsgGeoUnavailable
      [] OTHER                       -> MsgGeoDefault

\* The error callback's switch on error.code.
geoErrorMessage(code) ==
    CASE code = PERMISSION_DENIED    -> MsgGeoDenied
      [] code = POSITION_UNAVAILABLE -> MsgGeoUnavailable
      [] code = TIMEOUT              -> MsgGeoTimeout
      [] OTHER                       -> MsgGeoDefault

\* The success callback's coords object.
positionCoords(position) ==
    [lat |-> position.latitude, lon |-> position.longitude]

\* Line 249 with an assignment for the comparison: the unit becomes
\* Fahrenheit whatever it was.
flipUnit_Stuck(unit) == UNITS.FAHRENHEIT

\* currentUnit === UNITS.CELSIUS ? UNITS.FAHRENHEIT : UNITS.CELSIUS
flipUnit(unit) ==
    IF unit = UNITS.CELSIUS THEN UNITS.FAHRENHEIT ELSE UNITS.CELSIUS

\* localStorage.setItem('tempUnit', unit)
setItem(storage, unit) == [storage EXCEPT !.tempUnit = <<unit>>]

\* The guard of line 261 without that of line 258.
shouldRefetch_AnyPanel(el) ==
    /\ el.cityName # <<>>
    /\ el.cityName # Placeholder

\* Line 261 without its comparison with 'City Name'.
shouldRefetch_Placeholder(el) ==
    /\ ~el.weatherDisplayHidden
    /\ el.cityName # <<>>

\* The guards of lines 258 and 261.
shouldRefetch(el) ==
    /\ ~el.weatherDisplayHidden
    /\ el.cityName # <<>>
    /\ el.cityName # Placeholder

\* handleUnitToggle from line 255 on, `unit` being the flipped unit.
refreshAfterToggle(el, unit) ==
    LET labelled == [el EXCEPT !.unitText = tempSymbol(unit)]
    IN  IF shouldRefetch(labelled)
        THEN Started(performWeatherSearch(labelled, [city |-> labelled.cityName],
                                          FALSE, unit))
        ELSE Shown(labelled, <<>>)

\* init(), after the listeners are registered.
init(el, unit) ==
    toggleState([el EXCEPT !.unitText = tempSymbol(unit)], STATES.DISPLAY)

\* ---------------------------------------------------------------- actions
\* The last element of a non-empty sequence.
Last(q) == q[Len(q)]

\* Apply with an AbortController: a handler that starts a search drops the
\* searches still parked.
Apply_Cancels(r, cap) ==
    LET new == [k \in 1..Len(r.started) |-> [r.started[k] EXCEPT !.id = started + 1]]
    IN  /\ Len(r.started) > 0 => started + geoPending < cap
        /\ elements' = r.el
        /\ calls' = r.calls
        /\ uiState' = IF r.calls = <<>> THEN uiState ELSE Last(r.calls)
        /\ started' = started + Len(r.started)
        /\ searches' = IF Len(r.started) > 0
                        THEN SelectSeq(new, LAMBDA s : s.pc # "done")
                        ELSE searches
        /\ finished' = SelectSeq(new, LAMBDA s : s.pc = "done")
        /\ UNCHANGED wroteBy

\* The effect of a handler result r on the page and on the searches, with
\* room for `cap` searches in all (counting the positions still awaited):
\* a search that is parked joins `searches`, one that already ended is
\* `finished`.
Apply(r, cap) ==
    LET new == [k \in 1..Len(r.started) |-> [r.started[k] EXCEPT !.id = started + 1]]
    IN  /\ Len(r.started) > 0 => started + geoPending < cap
        /\ elements' = r.el
        /\ calls' = r.calls
        /\ uiState' = IF r.calls = <<>> THEN uiState ELSE Last(r.calls)
        /\ started' = started + Len(r.started)
        /\ searches' = searches \o SelectSeq(new, LAMBDA s : s.pc # "done")
        /\ finished' = SelectSeq(new, LAMBDA s : s.pc = "done")
        /\ UNCHANGED wroteBy

\* The i-th parked search runs on with result r.
Resume(i, r) ==
    /\ elements' = r.el
    /\ calls' = r.calls
    /\ uiState' = IF r.calls = <<>> THEN uiState ELSE Last(r.calls)
    /\ searches' =
            IF r.search.pc = "done"
            THEN SubSeq(searches, 1, i - 1) \o SubSeq(searches, i + 1, Len(searches))
            ELSE [searches EXCEPT ![i] = r.search]
    /\ finished' = IF r.search.pc = "done" THEN <<r.search>> ELSE <<>>
    /\ wroteBy' =
            LET t == r.search.trace
            IN  IF searches[i].pc = "awaitWeather"
                THEN IF Len(t) >= 3 /\ (t[3] = "renderCurrent" \/ t[3] = "renderCurrentThrew")
                     THEN [wroteBy EXCEPT !.current = searches[i].id,
                                          !.currentAt = r.search.coord]
                     ELSE wroteBy
                ELSE IF Len(t) >= 5 /\ (t[5] = "renderForecast" \/ t[5] = "renderForecastThrew")
                     THEN [wroteBy EXCEPT !.forecast = searches[i].id,
                                          !.forecastAt = r.search.coord]
                     ELSE wroteBy
    /\ UNCHANGED started

\* The state once init() has run, the item in storage being one of `items`
\* and navigator.geolocation existing or not as `geo` allows.
InitIn(items, geo) ==
    /\ localStorage \in { [tempUnit |-> item] : item \in items }
    /\ currentUnit = GetItemOr(localStorage, UNITS.CELSIUS)
    /\ \E h \in BOOLEAN \X BOOLEAN \X BOOLEAN :
            elements = init(MarkupElements(h), currentUnit)
    /\ geolocation \in geo
    /\ geoPending = 0
    /\ searches = <<>>
    /\ started = 0
    /\ finished = <<>>
    /\ uiState = STATES.DISPLAY
    /\ calls = <<STATES.DISPLAY>>
    /\ toggled = <<>>
    /\ wroteBy = [current |-> 0, forecast |-> 0,
                  currentAt |-> NoCoord, forecastAt |-> NoCoord]

\* handleSearch with `value` in the input.
HandleSearchOn(value, cap) ==
    /\ Apply(handleSearch(elements, value, currentUnit), cap)
    /\ toggled' = <<>>
    /\ UNCHANGED <<localStorage, currentUnit, geolocation, geoPending>>

\* Keys a keypress event may carry: Enter, and any other key.
Keys == {"Enter", "a"}

\* A click on #search-btn.
HandleSearchIn(values, cap) == \E value \in values : HandleSearchOn(value, cap)

\* A keypress in #city-input.
HandleKeyPressIn(values, cap) ==
    \E key \in Keys :
        IF key = "Enter"
        THEN \E value \in values : HandleSearchOn(value, cap)
        ELSE /\ toggled' = <<>>
             /\ finished' = <<>>
             /\ calls' = <<>>
             /\ UNCHANGED <<localStorage, currentUnit, elements, geolocation,
                            geoPending, searches, started, uiState, wroteBy>>

\* A click on #geo-btn.
HandleGeolocationIn(cap, geoCap) ==
    LET r == handleGeolocation(elements, geolocation)
    IN  /\ r.asked => geoPending < geoCap /\ started + geoPending < cap
        /\ Apply(r, cap)
        /\ geoPending' = IF r.asked THEN geoPending + 1 ELSE geoPending
        /\ toggled' = <<>>
        /\ UNCHANGED <<localStorage, currentUnit, geolocation>>

\* The success callback of getCurrentPosition, given `position`.
GeoSuccessOn(position) ==
    /\ geoPending > 0
    /\ geoPending' = geoPending - 1
    /\ LET r == Started(performWeatherSearch(elements, positionCoords(position),
                                             TRUE, currentUnit))
       IN  /\ elements' = r.el
           /\ calls' = r.calls
           /\ uiState' = Last(r.calls)
           /\ started' = started + 1
           /\ searches' = Append(searches, [r.started[1] EXCEPT !.id = started + 1])
           /\ finished' = <<>>
    /\ toggled' = <<>>
    /\ UNCHANGED <<localStorage, currentUnit, geolocation, wroteBy>>

GeoSuccessIn(positions) == \E position \in positions : GeoSuccessOn(position)

\* The error callback of getCurrentPosition, given an error with `code`.
GeoErrorOn(code) ==
    /\ geoPending > 0
    /\ geoPending' = geoPending - 1
    /\ elements' = showError(elements, geoErrorMessage(code))
    /\ calls' = <<STATES.ERROR>>
    /\ uiState' = STATES.ERROR
    /\ finished' = <<>>
    /\ toggled' = <<>>
    /\ UNCHANGED <<localStorage, currentUnit, geolocation, searches, started, wroteBy>>

GeoErrorIn(codes) == \E code \in codes : GeoErrorOn(code)

\* The fetch of fetchWeather settles for the i-th parked search.
WeatherResponseOn(i, outcome, data) ==
    /\ searches[i].pc = "awaitWeather"
    /\ Resume(i, afterWeather(elements, searches[i], outcome, data, currentUnit))
    /\ toggled' = <<>>
    /\ UNCHANGED <<localStorage, currentUnit, geolocation, geoPending>>

WeatherResponseIn(outcomes, payloads) ==
    \E i \in 1..Len(searches) :
        \/ \E outcome \in outcomes \ {"json"} :
                WeatherResponseOn(i, outcome, [none |-> TRUE])
        \/ \E data \in payloads : WeatherResponseOn(i, "json", data)

\* The fetch of fetchForecast settles for the i-th parked search.
ForecastResponseOn(i, outcome, data) ==
    /\ searches[i].pc = "awaitForecast"
    /\ Resume(i, afterForecast(elements, searches[i], outcome, data, currentUnit))
    /\ toggled' = <<>>
    /\ UNCHANGED <<localStorage, currentUnit, geolocation, geoPending>>

ForecastResponseIn(outcomes, payloads) ==
    \E i \in 1..Len(searches) :
        \/ \E outcome \in outcomes \ {"json"} :
                ForecastResponseOn(i, outcome, [none |-> TRUE])
        \/ \E data \in payloads : ForecastResponseOn(i, "json", data)

\* The last two elements of a sequence.
LastTwo(q) == IF Len(q) > 2 THEN SubSeq(q, Len(q) - 1, Len(q)) ELSE q

\* A click on #unit-toggle.
HandleUnitToggleIn(cap) ==
    /\ currentUnit' = flipUnit(currentUnit)
    /\ localStorage' = setItem(localStorage, currentUnit')
    /\ Apply(refreshAfterToggle(elements, currentUnit'), cap)
    /\ toggled' = LastTwo(Append(toggled,
            [unit |-> currentUnit, item |-> localStorage.tempUnit,
             symbol |-> elements.unitText]))
    /\ UNCHANGED <<geolocation, geoPending>>

\* --------------------------------------------------------- specifications
\* Overlapping searches, toggles and position requests, on few data.
Init == InitIn({<<"metric">>}, {TRUE})

Next ==
    \/ HandleSearchIn(FewTexts, MaxSearches)
    \/ HandleKeyPressIn(FewTexts, MaxSearches)
    \/ HandleGeolocationIn(MaxSearches, MaxGeo)
    \/ GeoSuccessIn(Positions)
    \/ GeoErrorIn({TIMEOUT})
    \/ WeatherResponseIn({"notOk"}, {WeatherParis})
    \/ ForecastResponseIn({"notOk"}, {ForecastTwoDays})
    \/ HandleUnitToggleIn(MaxSearches)

Spec == Init /\ [][Next]_vars

\* Every way a request can end and every payload, on few inputs.
InitFetch == InitIn({<<"metric">>}, {TRUE})

NextFetch ==
    \/ HandleSearchIn(FewTexts, MaxSolo)
    \/ HandleKeyPressIn(FewTexts, MaxSolo)
    \/ HandleGeolocationIn(MaxSolo, MaxGeo)
    \/ GeoSuccessIn(Positions)
    \/ GeoErrorIn({TIMEOUT})
    \/ WeatherResponseIn(NetOutcomes, WeatherPayloads)
    \/ ForecastResponseIn(NetOutcomes, ForecastPayloads)
    \/ HandleUnitToggleIn(MaxSolo)

SpecFetch == InitFetch /\ [][NextFetch]_vars

\* Every input text, every position error, with and without geolocation;
\* the unit stays as loaded.
InitInput == InitIn({<<"metric">>}, BOOLEAN)

NextInput ==
    \/ HandleSearchIn(InputTexts, MaxSolo)
    \/ HandleKeyPressIn(InputTexts, MaxSolo)
    \/ HandleGeolocationIn(MaxSolo, MaxGeo)
    \/ GeoSuccessIn(Positions)
    \/ GeoErrorIn(GeoErrorCodes)
    \/ WeatherResponseIn({"notOk"}, {WeatherParis})
    \/ ForecastResponseIn({"notOk"}, {ForecastTwoDays})

SpecInput == InitInput /\ [][NextInput]_vars

\* Every stored item, and a display with and without a city name.
InitUnits == InitIn(StoredItems, {TRUE})

NextUnits ==
    \/ HandleSearchIn({TextParis}, MaxSearches)
    \/ HandleKeyPressIn({TextParis}, MaxSearches)
    \/ WeatherResponseIn({"notOk"}, NamePayloads)
    \/ ForecastResponseIn({"notOk"}, {ForecastTwoDays})
    \/ HandleUnitToggleIn(MaxSearches)

SpecUnits == InitUnits /\ [][NextUnits]_vars

\* Overlapping searches for two cities, with every way the forecast request
\* can end; the unit stays as loaded.
InitRender == InitIn({<<"metric">>}, {TRUE})

NextRender ==
    \/ HandleSearchIn({TextParis}, MaxSearches)
    \/ WeatherResponseIn({"notOk"}, CityPayloads)
    \/ ForecastResponseIn(NetOutcomes, ForecastPayloads)

SpecRender == InitRender /\ [][NextRender]_vars

\* One search at a time, its forecast body any drawn list.
InitForecast == InitIn({<<"metric">>}, {TRUE})

NextForecast ==
    \/ HandleSearchIn({TextParis}, MaxSolo)
    \/ WeatherResponseIn({"notOk"}, {WeatherParis})
    \/ ForecastResponseIn({"notOk"}, ListPayloads)

SpecForecast == InitForecast /\ [][NextForecast]_vars

\* Searches and position requests that overlap, every request eventually
\* settled by the network, every position request eventually answered by
\* the platform (its success or its error callback, the latter after the
\* 10 s timeout at the latest), and the user acting finitely often.
InitLive == InitIn({<<"metric">>}, {TRUE})

SettleWeather == WeatherResponseIn({"notOk"}, {WeatherParis})
SettleForecast == ForecastResponseIn({"notOk"}, {ForecastTwoDays})
AnswerPosition == GeoSuccessIn(Positions) \/ GeoErrorIn({TIMEOUT})

UserActs ==
    \/ HandleSearchIn(FewTexts, MaxSearches)
    \/ HandleGeolocationIn(MaxSearches, MaxGeo)

NextLive ==
    \/ UserActs
    \/ AnswerPosition
    \/ SettleWeather
    \/ SettleForecast

SpecLive ==
    /\ InitLive /\ [][NextLive]_vars
    /\ WF_vars(SettleWeather)
    /\ WF_vars(SettleForecast)
    /\ WF_vars(AnswerPosition)
    /\ <>[][~UserActs]_vars

\* ----------------------------------------------------------------- claims
\* The containers that do not carry the class 'hidden'.
Visible(el) ==
    (IF el.loadingHidden THEN {} ELSE {STATES.LOADING})
        \cup (IF el.weatherDisplayHidden THEN {} ELSE {STATES.DISPLAY})
        \cup (IF el.errorMsgHidden THEN {} ELSE {STATES.ERROR})

\* C1: in every state after init, whatever handlers, callbacks and request
\* completions have run, exactly one of the three containers is visible, and
\* it is the one named by the latest toggleState call.
C1_ExactlyOneVisible ==
    /\ Cardinality(Visible(elements)) = 1
    /\ Visible(elements) = {uiState}

\* C1 witness: a search has just failed while another is still parked, and
\* the error container alone is visible.
C1_Witness ==
    /\ finished # <<>> /\ finished[1].caught = 1
    /\ Len(searches) > 0
    /\ Visible(elements) = {STATES.ERROR}

\* The steps of a search that succeeds, in order.
FullTrace ==
    <<"LOADING", "requestWeather", "renderCurrent", "requestForecast",
      "renderForecast", "DISPLAY">>

Prefix(q, n) == SubSeq(q, 1, n)

\* The steps of a search that ended in its catch block: some first steps of
\* FullTrace, at most one render that threw, then ERROR.
FailedTrace(t) ==
    \E n \in 1..4 :
        \/ t = Prefix(FullTrace, n) \o <<"ERROR">>
        \/ n = 2 /\ t = Prefix(FullTrace, 2) \o <<"renderCurrentThrew", "ERROR">>
        \/ n = 4 /\ t = Prefix(FullTrace, 4) \o <<"renderForecastThrew", "ERROR">>

\* The forecast request of s carries the coord of the body s rendered.
ForecastFromCoord(s) ==
    /\ s.coord # NoCoord
    /\ s.forecastRequest.path = "/forecast"
    /\ s.forecastRequest.lat = s.coord.lat
    /\ s.forecastRequest.lon = s.coord.lon

OrderedSearch(s) ==
    /\ s.pc = "awaitWeather" =>
            /\ s.trace = Prefix(FullTrace, 2)
            /\ s.weatherRequest # NoRequest /\ s.forecastRequest = NoRequest
    /\ s.pc = "awaitForecast" =>
            /\ s.trace = Prefix(FullTrace, 4)
            /\ s.settled = <<"json">>
            /\ ForecastFromCoord(s)
    /\ s.pc = "done" =>
            \/ /\ s.trace = FullTrace
               /\ s.settled = <<"json", "json">>
               /\ s.caught = 0
               /\ ForecastFromCoord(s)
            \/ /\ FailedTrace(s.trace)
               /\ s.forecastRequest # NoRequest =>
                    /\ Len(s.settled) >= 1 /\ s.settled[1] = "json"
                    /\ ForecastFromCoord(s)

\* C2: every search, parked or just ended, has taken its steps in the order
\* LOADING, current-weather request, render, forecast request (with the
\* coord of the body just rendered), render, DISPLAY; a forecast request
\* follows a current-weather body, and DISPLAY follows both renders.
C2_StepsInOrder ==
    /\ \A i \in 1..Len(searches) : OrderedSearch(searches[i])
    /\ \A i \in 1..Len(finished) :
            /\ OrderedSearch(finished[i])
            /\ finished[i].trace = FullTrace =>
                    Last(calls) = STATES.DISPLAY /\ Visible(elements) = {STATES.DISPLAY}

\* C2 witness: a search started from a position has ended with DISPLAY, its
\* forecast request made for the coord of the body and not for the position.
C2_Witness ==
    /\ finished # <<>>
    /\ finished[1].trace = FullTrace
    /\ finished[1].isCoords
    /\ finished[1].forecastRequest.lat # finished[1].query.lat
    /\ finished[1].forecastRequest.lat # finished[1].forecastRequest.lon

\* C3: a search that does not end with DISPLAY ends in its catch block, which
\* ran once: the error text is the message of the failure, the error
\* container alone is visible, and the search is parked nowhere.
C3_FailureCaughtOnce ==
    \A i \in 1..Len(finished) :
        LET f == finished[i]
        IN  /\ f.pc = "done"
            /\ \A k \in 1..Len(searches) : searches[k].id # f.id
            /\ f.trace # FullTrace =>
                    /\ f.caught = 1
                    /\ Last(f.trace) = "ERROR"
                    /\ \A k \in 1..(Len(f.trace) - 1) :
                            f.trace[k] # "ERROR" /\ f.trace[k] # "DISPLAY"
                    /\ f.message # ""
                    /\ elements.errorText = f.message
                    /\ Last(calls) = STATES.ERROR
                    /\ Visible(elements) = {STATES.ERROR}

\* C3 witness: a search whose forecast body had no list has ended in ERROR
\* with the TypeError's message.
C3_Witness ==
    /\ finished # <<>>
    /\ finished[1].settled = <<"json", "json">>
    /\ finished[1].message = MsgNoList
    /\ elements.errorText = MsgNoList

\* C4: a search whose current-weather response was not ok ends with the text
\* "City not found" when started from a city name and with "Unable to fetch
\* weather for your location" when started from coordinates; one whose
\* forecast response was not ok ends with "Unable to fetch forecast data";
\* the error container is then the visible one.
C4_NotOkMessages ==
    \A i \in 1..Len(finished) :
        LET f == finished[i]
        IN  /\ (f.settled = <<"notOk">> /\ ~f.isCoords) =>
                    elements.errorText = "City not found"
            /\ (f.settled = <<"notOk">> /\ f.isCoords) =>
                    elements.errorText = "Unable to fetch weather for your location"
            /\ f.settled = <<"json", "notOk">> =>
                    elements.errorText = "Unable to fetch forecast data"
            /\ Last(f.settled) = "notOk" => Visible(elements) = {STATES.ERROR}

\* C4 witness: a search started from coordinates met a current-weather
\* response that was not ok.
C4_Witness ==
    /\ finished # <<>>
    /\ finished[1].isCoords
    /\ finished[1].settled = <<"notOk">>
    /\ elements.errorText = MsgLocationFetch

\* The search started by the step: it is parked, or has already ended.
NewSearch ==
    IF finished' # <<>> /\ finished'[1].id = started'
    THEN finished'[1]
    ELSE Last(searches')

\* What displayCurrentWeather and displayForecast write.
Rendered(el) ==
    <<el.cityName, el.temp, el.description, el.humidity, el.wind,
      el.weatherIcon, el.forecastContainer>>

\* C5: for every input text, handleSearch starts a search exactly when the
\* trimmed text has 1 to 100 characters, and the search is for the trimmed
\* text as a city name.
C5_SearchIffValidLength ==
    [][\A v \in InputTexts :
        HandleSearchOn(v, MaxSolo) =>
            /\ started' \in {started, started + 1}
            /\ started' = started + 1 <=> (Len(Trim(v)) >= 1 /\ Len(Trim(v)) <= 100)
            /\ started' = started + 1 =>
                    /\ NewSearch.query = [city |-> Trim(v)]
                    /\ ~NewSearch.isCoords
                    /\ NewSearch.trace[1] = "LOADING"]_vars

\* C5 witness: a search is parked for a text of exactly 100 characters,
\* typed with a blank on either side.
C5_Witness ==
    \E i \in 1..Len(searches) :
        /\ searches[i].query = [city |-> Rep("x", 100)]
        /\ searches[i].weatherRequest.q = Rep("x", 100)

\* C6: when the trimmed input is empty or longer than 100 characters,
\* handleSearch issues no request, never calls toggleState with LOADING,
\* leaves the rendered fields and cards alone, and shows the error
\* container with "Please enter a city name" for the empty case and
\* "Please enter a valid city name" for the long one.
C6_RejectedInput ==
    [][\A v \in InputTexts :
        (HandleSearchOn(v, MaxSolo) /\ ~(Len(Trim(v)) >= 1 /\ Len(Trim(v)) <= 100)) =>
            /\ started' = started /\ searches' = searches /\ finished' = <<>>
            /\ geoPending' = geoPending
            /\ calls' = <<STATES.ERROR>>
            /\ Rendered(elements') = Rendered(elements)
            /\ Visible(elements') = {STATES.ERROR}
            /\ elements'.errorText =
                    IF Len(Trim(v)) = 0
                    THEN "Please enter a city name"
                    ELSE "Please enter a valid city name"]_vars

\* C6 witness: an input of blanks has just been rejected while the page
\* still shows what a search rendered.
C6_Witness ==
    /\ calls = <<STATES.ERROR>>
    /\ elements.errorText = MsgEmptyCity
    /\ Visible(elements) = {STATES.ERROR}
    /\ elements.cityName = Paris
    /\ finished = <<>>

\* C7: without navigator.geolocation, handleGeolocation shows "Geolocation
\* is not supported by this browser" in the error container, calls
\* toggleState with ERROR only, asks for no position and starts no search.
C7_NoGeolocation ==
    [][(~geolocation /\ HandleGeolocationIn(MaxSolo, MaxGeo)) =>
            /\ elements'.errorText = "Geolocation is not supported by this browser"
            /\ Visible(elements') = {STATES.ERROR}
            /\ calls' = <<STATES.ERROR>>
            /\ geoPending' = geoPending
            /\ searches' = searches /\ started' = started /\ finished' = <<>>
            /\ Rendered(elements') = Rendered(elements)]_vars

\* C7 witness: the message is shown on a page without geolocation.
C7_Witness ==
    /\ ~geolocation
    /\ elements.errorText = MsgNoGeolocation
    /\ Visible(elements) = {STATES.ERROR}
    /\ calls = <<STATES.ERROR>>
    /\ geoPending = 0

\* The message the claim gives for a position error code.
C8_Message(code) ==
    CASE code = 1 -> "Location access denied. Please enable location services."
      [] code = 2 -> "Location information is unavailable."
      [] code = 3 -> "Location request timed out."
      [] OTHER    -> "Location access denied"

\* C8: with navigator.geolocation, handleGeolocation shows LOADING and asks
\* for the position; the success callback starts a search for the reported
\* coordinates with isCoords set; the error callback starts none and shows
\* ERROR with a message of its own for each of the codes 1, 2 and 3 and
\* "Location access denied" for any other code.
C8_Geolocation ==
    [][/\ (geolocation /\ HandleGeolocationIn(MaxSolo, MaxGeo)) =>
            /\ calls' = <<STATES.LOADING>>
            /\ Visible(elements') = {STATES.LOADING}
            /\ geoPending' = geoPending + 1
            /\ searches' = searches /\ started' = started
       /\ \A p \in Positions :
            GeoSuccessOn(p) =>
                /\ geoPending' = geoPending - 1
                /\ started' = started + 1
                /\ Len(searches') = Len(searches) + 1
                /\ Last(searches').isCoords
                /\ Last(searches').query = [lat |-> p.latitude, lon |-> p.longitude]
                /\ Last(searches').weatherRequest.lat = p.latitude
                /\ Last(searches').weatherRequest.lon = p.longitude
                /\ Last(searches').trace = <<"LOADING", "requestWeather">>
       /\ \A c \in GeoErrorCodes :
            GeoErrorOn(c) =>
                /\ geoPending' = geoPending - 1
                /\ searches' = searches /\ started' = started /\ finished' = <<>>
                /\ Visible(elements') = {STATES.ERROR}
                /\ elements'.errorText = C8_Message(c)
       /\ Cardinality({C8_Message(c) : c \in GeoErrorCodes}) = 4]_vars

\* C8 witness: a position request has timed out and its message is shown.
C8_Witness ==
    /\ geolocation
    /\ elements.errorText = "Location request timed out."
    /\ Visible(elements) = {STATES.ERROR}
    /\ geoPending = 0 /\ started = 0

C10_ToggleRefetch ==
    [][HandleUnitToggleIn(MaxSearches) =>
        /\ currentUnit = "metric" => currentUnit' = "imperial"
        /\ currentUnit # "metric" => currentUnit' = "metric"
        /\ localStorage'.tempUnit = <<currentUnit'>>
        /\ elements'.unitText = IF currentUnit' = "metric" THEN "°C" ELSE "°F"
        /\ started' \in {started, started + 1}
        /\ started' = started + 1 <=>
                /\ Visible(elements) = {STATES.DISPLAY}
                /\ elements.cityName # <<>>
                /\ elements.cityName # Placeholder
        /\ started' = started + 1 =>
                /\ NewSearch.query = [city |-> elements.cityName]
                /\ ~NewSearch.isCoords
                /\ NewSearch.weatherRequest.units = currentUnit'
                /\ calls' = <<STATES.LOADING>>
        /\ Visible(elements) # {STATES.DISPLAY} =>
                /\ searches' = searches /\ started' = started /\ finished' = <<>>
                /\ calls' = <<>>
                /\ Visible(elements') = Visible(elements)
                /\ Rendered(elements') = Rendered(elements)
                /\ elements'.errorText = elements.errorText]_vars

\* C10 witness: a toggle on a display that shows Paris has just started a
\* search for Paris with the new unit.
C10_Witness ==
    /\ toggled # <<>>
    /\ calls = <<STATES.LOADING>>
    /\ Len(searches) > 0
    /\ Last(searches).query = [city |-> Paris]
    /\ Last(searches).weatherRequest.units = currentUnit
    /\ Last(toggled).unit # currentUnit

\* C11: while no search has ever started (from init on, the display showing
\* the markup's placeholder, or an error or loading container put up since),
\* handleUnitToggle starts no search and issues no request, calls
\* toggleState not at all and leaves the visible container and everything
\* rendered as they are; it changes the unit, the stored item and the unit
\* symbol, and nothing else of the page.
C11_ToggleBeforeSearch ==
    [][started = 0 /\ HandleUnitToggleIn(MaxSearches) =>
        /\ started' = 0 /\ searches' = <<>> /\ finished' = <<>>
        /\ calls' = <<>>
        /\ uiState' = uiState
        /\ Visible(elements') = Visible(elements)
        /\ elements' = [elements EXCEPT !.unitText = tempSymbol(currentUnit')]
        /\ currentUnit' # currentUnit
        /\ localStorage'.tempUnit = <<currentUnit'>>
        /\ geoPending' = geoPending]_vars

\* C11 witness: right after init, with the empty display visible, one toggle
\* has made the unit imperial and the symbol Fahrenheit, and no search exists.
C11_Witness ==
    /\ started = 0 /\ searches = <<>>
    /\ Len(toggled) = 1
    /\ toggled[1].unit = "metric"
    /\ currentUnit = "imperial"
    /\ localStorage.tempUnit = <<"imperial">>
    /\ elements.unitText = "°F"
    /\ elements.cityName = Placeholder
    /\ Visible(elements) = {STATES.DISPLAY}

\* The current-weather fields of `el` hold what displayCurrentWeather writes
\* for the body whose coord search s recorded.
WroteCurrent(el, s) ==
    \E d \in WeatherPayloads :
        /\ Has(d, "coord") /\ Has(d, "main") /\ d.coord = s.coord
        /\ el.cityName = d.name
        /\ el.temp.value = MathRound(d.main.temp)
        /\ el.description = d.weather.description
        /\ el.humidity.value = d.main.humidity
        /\ el.wind.value = MathRound(d.wind.speed)
        /\ el.weatherIcon.alt = d.weather.description

\* Search s, parked on its forecast request, ends in this step because
\* fetchForecast threw.
ForecastFetchFails(s) ==
    /\ s.pc = "awaitForecast"
    /\ finished' # <<>>
    /\ finished'[1].id = s.id
    /\ finished'[1].trace = Prefix(FullTrace, 4) \o <<"ERROR">>

\* C12: the step in which the forecast fetch of a search fails, after its
\* current weather was rendered, changes nothing that was rendered: the
\* current-weather fields stay (they are the search's own values when its
\* displayCurrentWeather was the last to run), the forecast cards stay, and
\* the search never ran displayForecast, the only code that changes the
\* cards; the error container alone is visible, the weather display hidden.
C12_PartialRenderStays ==
    [][/\ \A i \in 1..Len(searches) :
            ForecastFetchFails(searches[i]) =>
                /\ Rendered(elements') = Rendered(elements)
                /\ wroteBy.current = searches[i].id =>
                        WroteCurrent(elements', searches[i])
                /\ wroteBy' = wroteBy
                /\ wroteBy.forecast # searches[i].id
                /\ Visible(elements') = {STATES.ERROR}
                /\ elements'.weatherDisplayHidden
                /\ elements'.errorText = finished'[1].message
       /\ wroteBy'.forecast = wroteBy.forecast =>
            elements'.forecastContainer = elements.forecastContainer]_vars

\* C12 witness: London was rendered by a search whose forecast request was
\* then rejected; London's values and the cards of the search before it are
\* on the hidden display, the error container is visible.
C12_Witness ==
    /\ finished # <<>>
    /\ finished[1].trace = Prefix(FullTrace, 4) \o <<"ERROR">>
    /\ finished[1].settled = <<"json", "reject">>
    /\ wroteBy.current = finished[1].id
    /\ wroteBy.forecast # 0
    /\ WroteCurrent(elements, finished[1])
    /\ elements.cityName = London
    /\ elements.forecastContainer # <<>>
    /\ Visible(elements) = {STATES.ERROR}

\* C13: a step that starts a search leaves every parked search parked and
\* as it was; a search leaves `searches` only when a response of its own
\* has settled; and a search that reaches its end renders and shows the
\* display whether or not a later search has started since.
C13_NoCancellation ==
    [][/\ started' > started =>
            /\ Len(searches') >= Len(searches)
            /\ SubSeq(searches', 1, Len(searches)) = searches
       /\ \A i \in 1..Len(searches) :
            (\A k \in 1..Len(searches') : searches'[k].id # searches[i].id) =>
                /\ finished' # <<>>
                /\ finished'[1].id = searches[i].id
                /\ Len(finished'[1].settled) = Len(searches[i].settled) + 1
       /\ (finished' # <<>> /\ finished'[1].trace = FullTrace) =>
            /\ wroteBy'.forecast = finished'[1].id
            /\ Visible(elements') = {STATES.DISPLAY}]_vars

\* C13 witness: two searches were in flight together and both have ended,
\* the first-started one last: the city, the weather and the cards on the
\* visible display are those of search 1, not of search 2.
C13_Witness ==
    /\ started = 2 /\ searches = <<>> /\ geoPending = 0
    /\ finished # <<>>
    /\ finished[1].id = 1
    /\ finished[1].trace = FullTrace
    /\ wroteBy.current = 1 /\ wroteBy.forecast = 1
    /\ WroteCurrent(elements, finished[1])
    /\ elements.cityName = London
    /\ Visible(elements) = {STATES.DISPLAY}

\* The positions of `list` whose dt_txt contains "12:00:00".
NoonAt(list) == {j \in 1..Len(list) : Includes(list[j].dt_txt, Noon)}

\* r holds the entries of `list` at the positions NoonAt, each once, in the
\* order of their positions.
IsNoonSelection(list, r) ==
    LET P == NoonAt(list)
    IN  /\ Len(r) = Cardinality(P)
        /\ \A j \in P : r[Cardinality({p \in P : p <= j})] = list[j]

\* C14: whenever a forecast body with a list has been read, fetchForecast
\* has returned, and what it returned is the entries of that list whose
\* dt_txt contains "12:00:00": all of them, nothing else, in the order the
\* list has them.
C14_NoonEntriesInOrder ==
    \A i \in 1..Len(finished) :
        LET f == finished[i]
        IN  /\ (f.forecastBody # NoBody /\ f.forecastBody \in ListPayloads) =>
                    f.forecastData # <<>>
            /\ f.forecastData # <<>> =>
                    IsNoonSelection(f.forecastBody.list, f.forecastData[1])

\* C14 witness: from a list of four entries with the noon of day 2 before
\* that of day 1 and a morning entry between them, fetchForecast returned
\* the two noon entries, day 2 first.
C14_Witness ==
    /\ finished # <<>>
    /\ finished[1].forecastBody # NoBody
    /\ Len(finished[1].forecastBody.list) = 4
    /\ finished[1].forecastBody.list[1] = Entry(2, 12, 175)
    /\ finished[1].forecastBody.list[2] = Entry(1, 9, 121)
    /\ finished[1].forecastBody.list[3] = Entry(1, 12, 154)
    /\ finished[1].forecastData = << <<Entry(2, 12, 175), Entry(1, 12, 154)>> >>

\* How often step x occurs in trace t.
Count(t, x) == Cardinality({k \in 1..Len(t) : t[k] = x})

\* A search that issued each request at most once, and no forecast request
\* unless its current-weather request was answered and rendered.
NoRetry(s) ==
    /\ Count(s.trace, "requestWeather") <= 1
    /\ Count(s.trace, "requestForecast") <= 1
    /\ Len(s.settled) <= Count(s.trace, "requestWeather")
                            + Count(s.trace, "requestForecast")
    /\ (s.weatherRequest # NoRequest) <=> (Count(s.trace, "requestWeather") = 1)
    /\ (s.forecastRequest # NoRequest) <=> (Count(s.trace, "requestForecast") = 1)
    /\ (s.settled # <<>> /\ s.settled[1] # "json") =>
            /\ s.pc = "done"
            /\ s.settled = <<s.settled[1]>>
            /\ s.forecastRequest = NoRequest
            /\ Count(s.trace, "requestForecast") = 0
            /\ s.caught = 1
    /\ (s.pc = "done" /\ s.settled # <<>> /\ Last(s.settled) # "json") =>
            Last(s.trace) = "ERROR"

\* C15: every search, parked or just ended, has issued at most one
\* current-weather request and at most one forecast request; one whose
\* current-weather request was rejected or answered not-ok has ended in its
\* catch block with no forecast request issued, and any failed request is
\* the last thing the search did before its catch block.
C15_NoRetries ==
    /\ \A i \in 1..Len(searches) : NoRetry(searches[i])
    /\ \A i \in 1..Len(finished) : NoRetry(finished[i])

\* C15 witness: a search whose current-weather fetch was rejected has ended
\* with that one request issued and no forecast request.
C15_Witness ==
    /\ finished # <<>>
    /\ finished[1].settled = <<"reject">>
    /\ finished[1].trace = <<"LOADING", "requestWeather", "ERROR">>
    /\ finished[1].weatherRequest # NoRequest
    /\ finished[1].forecastRequest = NoRequest
    /\ Visible(elements) = {STATES.ERROR}

\* The calendar day of a forecast entry, as its dt_txt gives it.
Day(entry) == Prefix(entry.dt_txt, 10)

\* C16: whenever fetchForecast has returned, the sequence it returned has
\* at most 5 entries, no two of them of the same calendar day, and a search
\* that rendered it shows one card per entry, so at most 5 cards.
C16_AtMostFiveOnePerDay ==
    \A i \in 1..Len(finished) :
        LET f == finished[i]
        IN  f.forecastData # <<>> =>
                LET r == f.forecastData[1]
                IN  /\ Len(r) <= 5
                    /\ \A a \in 1..Len(r) : \A b \in 1..Len(r) :
                            a # b => Day(r[a]) # Day(r[b])
                    /\ f.trace = FullTrace =>
                            /\ Len(elements.forecastContainer) = Len(r)
                            /\ Len(elements.forecastContainer) <= 5

\* One of the two values of UNITS.
IsUnit(u) == u = UNITS.CELSIUS \/ u = UNITS.FAHRENHEIT

\* The requests of search s carry one of the two units.
RequestsCarryUnit(s) ==
    /\ s.weatherRequest # NoRequest => IsUnit(s.weatherRequest.units)
    /\ s.forecastRequest # NoRequest => IsUnit(s.forecastRequest.units)

\* C17: the in-memory unit is always metric or imperial, and metric while
\* nothing is stored; after a toggle the stored item is the in-memory unit;
\* every request of every search carries units=metric or units=imperial.
C17_UnitIsEnum ==
    /\ IsUnit(currentUnit)
    /\ localStorage.tempUnit = <<>> => currentUnit = UNITS.CELSIUS
    /\ toggled # <<>> => localStorage.tempUnit = <<currentUnit>>
    /\ \A i \in 1..Len(searches) : RequestsCarryUnit(searches[i])
    /\ \A i \in 1..Len(finished) : RequestsCarryUnit(finished[i])

\* C18: whenever the weather display is visible and a search has started,
\* the current-weather fields and the forecast cards on it are for one and
\* the same location, that of the search that wrote them.
C18_SameSearchRendered ==
    (Visible(elements) = {STATES.DISPLAY} /\ started > 0) =>
        /\ wroteBy.current # 0
        /\ wroteBy.currentAt = wroteBy.forecastAt

\* C19: whenever the weather display is visible with rendered values, the
\* symbol beside the current temperature and on every forecast card is the
\* one on the toggle button; and when a search has just ended by showing
\* the display, these symbols are those of the units its two requests
\* carried.
C19_SymbolMatchesRequest ==
    (Visible(elements) = {STATES.DISPLAY} /\ Has(elements.temp, "unit")) =>
        /\ elements.temp.unit = elements.unitText
        /\ \A k \in 1..Len(elements.forecastContainer) :
                elements.forecastContainer[k].temp.unit = elements.unitText
        /\ \A i \in 1..Len(finished) :
                (finished[i].trace = FullTrace /\ wroteBy.current = finished[i].id) =>
                    /\ elements.temp.unit =
                            tempSymbol(finished[i].weatherRequest.units)
                    /\ \A k \in 1..Len(elements.forecastContainer) :
                            elements.forecastContainer[k].temp.unit =
                                tempSymbol(finished[i].forecastRequest.units)

\* The search with id n is parked on a request.
Parked(n) == \E i \in 1..Len(searches) : searches[i].id = n

\* C20: if every request settles and every position request is answered,
\* then whenever the loading container is visible the display or the error
\* container is visible later, every position request is answered and
\* every search that is parked on a request ends.
C20_LoadingEnds ==
    /\ (Visible(elements) = {STATES.LOADING}) ~>
            (Visible(elements) = {STATES.DISPLAY}
                \/ Visible(elements) = {STATES.ERROR})
    /\ (geoPending > 0) ~> (geoPending = 0)
    /\ \A n \in 1..MaxSearches : Parked(n) ~> ~Parked(n)

\* C20 witness: two searches were parked while the loading container was
\* visible; both have ended and the display is visible.
C20_Witness ==
    /\ started = 2 /\ searches = <<>> /\ geoPending = 0
    /\ finished # <<>>
    /\ finished[1].trace = FullTrace
    /\ Visible(elements) = {STATES.DISPLAY}

====
